---- MODULE Spec2Model ----
(***************************************************************************)
(* "West Coast Osc" / "Scheveningen" (core1ae-Scheveningen.ino).           *)
(*                                                                         *)
(* Two flows share the globals of the sketch: loop(), the control-rate     *)
(* sampler, and wsAudioLoop(), the sample-rate interrupt handler.  The     *)
(* handler runs to completion (one action); loop() is preemptable between  *)
(* its statements, so each statement that writes a shared global is one    *)
(* step and pc is loop()'s position.  A 16-bit store is taken as one step. *)
(***************************************************************************)
EXTENDS Integers, Naturals, FiniteSets, Sequences, TLC

VARIABLES
    pc,                      \* loop()'s position: the statement it executes next
    wrap_read,               \* analogRead(WRAP_KNOB) as loop() last took it
    master_polarity, slave_polarity, output, master_phase, phase_inc,
    slave_offset_current, slave_offset_measured, wrap_factor, neg_wrap_factor,
    slave_phase, master_value, slave_value, accumulator,
    pwm,                     \* the sample last handed to wsWriteToPWM (-1: none yet)
    hold_from,               \* slave_offset_current when slave_offset_measured was last stored
    hold                     \* wsAudioLoop invocations since that store (saturating)

vars == <<pc, wrap_read, master_polarity, slave_polarity, output, master_phase,
          phase_inc, slave_offset_current, slave_offset_measured, wrap_factor,
          neg_wrap_factor, slave_phase, master_value, slave_value, accumulator,
          pwm, hold_from, hold>>

----------------------------------------------------------------------------
(* Bounds of the model *)

\* sample interrupts that may fire before loop() first stores phase_inc
MaxEarlySamples == 2
\* the detune knob is read in 0..MaxSlaveRead under Spec
MaxSlaveRead == 3
\* SpecEngine samples the detune offset in windows of OffsetWindow + 1 codes
OffsetWindow == 1
\* SpecEngine starts the master phase at 0..MaxPhaseStart (and at 127, 128, 255)
MaxPhaseStart == 1

----------------------------------------------------------------------------
(* Fixed-width integer arithmetic *)

Two16 == 65536
AnalogMax == 1023

Min(a, b) == IF a < b THEN a ELSE b
Max(a, b) == IF a > b THEN a ELSE b

Shl16(v, n) == (v * 2^n) % Two16          \* uint16_t v <<= n
Shr(v, n) == v \div 2^n                   \* v >>= n
Mul16(a, b) == (a * b) % Two16            \* uint16_t a *= b
Not16(v) == Two16 - 1 - v                 \* ~v on 16 bits

----------------------------------------------------------------------------
(* loop(): the control-rate sampler *)

\* min(1023, analogRead(PITCH_CV) + max(0, analogRead(PITCH_KNOB) - 600))
EffectivePitch(cv, knob) == Min(AnalogMax, cv + Max(0, knob - 600))

\* wsFetchOctaveLookup: the table is not part of the sketch; an exponential,
\* monotonic stand-in, one octave per 128 codes
LookupBase == 8
OctaveLookup(v) == 2^(LookupBase + v \div 128)

\* mutant: the upper clamp left out
WrapFactorUnclamped(knob) == 64 + Shr(knob, 1)
WrapFactorOf(knob) == Min(64 + Shr(knob, 1), 511)
\* mutant: shifted the wrong way
NegWrapFactorDoubled(w) == Max(Shl16(w, 1), 64)
NegWrapFactorOf(w) == Max(Shr(w, 1), 64)

\* the readings analogRead() returns under Spec
PitchCvReads == {800, AnalogMax}
PitchKnobReads == {500, 800}
SlaveReads == 0..MaxSlaveRead
WrapReads == {0, 127, 132, AnalogMax}

LoopPitch ==
    /\ pc = "pitch"
    /\ \E cv \in PitchCvReads, knob \in PitchKnobReads :
          phase_inc' = OctaveLookup(EffectivePitch(cv, knob))
    /\ pc' = "slave"
    /\ UNCHANGED <<wrap_read, master_polarity, slave_polarity, output, master_phase,
                   slave_offset_current, slave_offset_measured, wrap_factor,
                   neg_wrap_factor, slave_phase, master_value, slave_value,
                   accumulator, pwm, hold_from, hold>>

LoopSlave ==
    /\ pc = "slave"
    /\ \E k \in SlaveReads : slave_offset_measured' = k
    /\ hold_from' = slave_offset_current
    /\ hold' = 0
    /\ pc' = "wrap"
    /\ UNCHANGED <<wrap_read, master_polarity, slave_polarity, output, master_phase,
                   phase_inc, slave_offset_current, wrap_factor, neg_wrap_factor,
                   slave_phase, master_value, slave_value, accumulator, pwm>>

LoopWrap ==
    /\ pc = "wrap"
    /\ \E k \in WrapReads :
          /\ wrap_read' = k
          /\ wrap_factor' = WrapFactorOf(k)
    /\ pc' = "neg"
    /\ UNCHANGED <<master_polarity, slave_polarity, output, master_phase, phase_inc,
                   slave_offset_current, slave_offset_measured, neg_wrap_factor,
                   slave_phase, master_value, slave_value, accumulator, pwm,
                   hold_from, hold>>

LoopNeg ==
    /\ pc = "neg"
    /\ neg_wrap_factor' = NegWrapFactorOf(wrap_factor)
    /\ pc' = "pitch"
    /\ UNCHANGED <<wrap_read, master_polarity, slave_polarity, output, master_phase,
                   phase_inc, slave_offset_current, slave_offset_measured,
                   wrap_factor, slave_phase, master_value, slave_value, accumulator,
                   pwm, hold_from, hold>>

----------------------------------------------------------------------------
(* wsAudioLoop(): the audio-rate synthesis engine *)

\* mutant: the smoothing steps two codes at a time
SlewByTwo(cur, target) ==
    IF cur < target THEN (cur + 2) % Two16
    ELSE IF cur > target THEN (cur - 2) % Two16
    ELSE cur

\* slave osc pitch offset smoothing
Slew(cur, target) ==
    IF cur < target THEN (cur + 1) % Two16
    ELSE IF cur > target THEN (cur - 1) % Two16
    ELSE cur

\* "turn master into a sine, or rather; a close approximation"
SineIndex(phase) == Shr(Shl16(phase, 1), 8)
SineProduct(x) == Mul16(x, Not16(x) % 256)
PseudoSine(phase) == Shr(Shl16(SineProduct(SineIndex(phase)), 2), 8)
Polarity(phase) == (phase \div 32768) % 2 = 1

\* mutant: the product taken in 16 bits
SlaveAccumulator16(mp, offset) == Shr(Mul16(mp, offset), 8) + mp
\* mutant: the product rescaled by 7 bits instead of 8
SlaveAccumulatorShift7(mp, offset) == Shr(mp * offset, 7) + mp

\* the slave phase "in 32bit resolution", before it is truncated to 16 bits.
\* accumulator is a uint32_t and both operands are uint16_t, so neither the
\* product nor the sum can wrap it: they are taken exactly.
SlaveAccumulator(mp, offset) == Shr(mp * offset, 8) + mp
SlavePhaseOf(mp, offset) == SlaveAccumulator(mp, offset) % Two16

\* mutant: the halving left out
RingModUnhalved(mv, sv) == Shr(Mul16(mv, sv), 8)

\* ring-mod: multiply, rescale, halve
RingMod(mv, sv) == Shr(Shr(Mul16(mv, sv), 8), 1)

\* asymmetrical wave-wrapping
SelectFactor(pol, wf, nwf) == IF pol THEN wf ELSE nwf
Scale(m, factor) == Shr(Shl16(Mul16(m, factor), 2), 8)
PastZero(v) == v \div 256 # 0 /\ (v \div 256) % 2 = 1
FoldPolarity(v, pol) == IF PastZero(v) THEN ~pol ELSE pol
FoldMask(v) == IF v \div 256 # 0 THEN v % 256 ELSE v
\* mutant: the mask of the reflected value left out
ReflectUnmasked(v) == IF v > 127 THEN (127 - v) % Two16 ELSE v
Reflect(v) == IF v > 127 THEN (127 - (v % 128)) % Two16 ELSE v

\* "only now do we make a bipolar signal" (uint8_t output)
Bipolar(pol, v) == IF pol THEN (127 - v) % 256 ELSE (128 + v) % 256

\* everything one invocation computes from the phase and the control
\* parameters it sees
Engine(mp, offset, wf, nwf) ==
    LET mv0    == PseudoSine(mp)
        sp     == SlavePhaseOf(mp, offset)
        sv     == PseudoSine(sp)
        rpol   == Polarity(mp) # Polarity(sp)
        ring   == RingMod(mv0, sv)
        factor == SelectFactor(rpol, wf, nwf)
        scaled == Scale(ring, factor)
        fpol   == FoldPolarity(scaled, rpol)
        masked == FoldMask(scaled)
        folded == Reflect(masked)
    IN  [slave_phase |-> sp, slave_value |-> sv, slave_polarity |-> Polarity(sp),
         ring |-> ring, ring_polarity |-> rpol, factor |-> factor,
         scaled |-> scaled, masked |-> masked,
         master_value |-> folded, master_polarity |-> fpol,
         output |-> Bipolar(fpol, folded)]

\* mutant: the sample is written after it is computed, not before
PwmWriteLate ==
    pwm' = Engine((master_phase + phase_inc) % Two16,
                  Slew(slave_offset_current, slave_offset_measured),
                  wrap_factor, neg_wrap_factor).output

\* wsWriteToPWM(output), "first to avoid jitter"
PwmWrite == pwm' = output

HoldCap == MaxSlaveRead + 1

wsAudioLoop ==
    /\ (phase_inc = 1) => (master_phase < MaxEarlySamples)
    /\ PwmWrite
    /\ master_phase' = (master_phase + phase_inc) % Two16
    /\ slave_offset_current' = Slew(slave_offset_current, slave_offset_measured)
    /\ LET e == Engine(master_phase', slave_offset_current', wrap_factor,
                       neg_wrap_factor)
       IN  /\ accumulator' = e.slave_phase
           /\ slave_phase' = e.slave_phase
           /\ slave_value' = e.slave_value
           /\ slave_polarity' = e.slave_polarity
           /\ master_value' = e.master_value
           /\ master_polarity' = e.master_polarity
           /\ output' = e.output
    /\ hold' = Min(hold + 1, HoldCap)
    /\ UNCHANGED <<pc, wrap_read, phase_inc, slave_offset_measured, wrap_factor,
                   neg_wrap_factor, hold_from>>

----------------------------------------------------------------------------
(* The program *)

Init ==
    /\ pc = "pitch"
    /\ wrap_read = 0
    /\ master_polarity = FALSE
    /\ slave_polarity = FALSE
    /\ output = 0
    /\ master_phase = 0
    /\ phase_inc = 1
    /\ slave_offset_current = 1
    /\ slave_offset_measured = 1
    /\ wrap_factor = 64
    /\ neg_wrap_factor = 64
    /\ slave_phase = 0
    /\ master_value = 0
    /\ slave_value = 0
    /\ accumulator = 0
    /\ pwm = -1
    /\ hold_from = 1
    /\ hold = 0

Next == LoopPitch \/ LoopSlave \/ LoopWrap \/ LoopNeg \/ wsAudioLoop

Spec == Init /\ [][Next]_vars

----------------------------------------------------------------------------
(* The engine alone, over sampled inputs: the state right after an          *)
(* invocation, with loop() having stored the control parameters and not     *)
(* running; every further step is one more invocation.                      *)

EnginePitch == 0
PhaseStarts == (0..MaxPhaseStart) \cup {127, 128, 255}
OffsetSamples == {b + d : b \in {0, 256, 512, 768, AnalogMax - OffsetWindow},
                             d \in 0..OffsetWindow}
WrapSamples == {0, 132, 600, AnalogMax}

InitEngine ==
    \E p0 \in PhaseStarts, c \in OffsetSamples, k \in WrapSamples :
       LET inc == OctaveLookup(EnginePitch)
           wf  == WrapFactorOf(k)
           nwf == NegWrapFactorOf(wf)
           e   == Engine(p0, c, wf, nwf)
       IN  /\ pc = "wrap"
           /\ wrap_read = k
           /\ wrap_factor = wf
           /\ neg_wrap_factor = nwf
           /\ phase_inc = inc
           /\ master_phase = p0
           /\ slave_offset_current = c
           /\ slave_offset_measured = c
           /\ accumulator = e.slave_phase
           /\ slave_phase = e.slave_phase
           /\ slave_value = e.slave_value
           /\ slave_polarity = e.slave_polarity
           /\ master_value = e.master_value
           /\ master_polarity = e.master_polarity
           /\ output = e.output
           /\ pwm = Engine((p0 - inc) % Two16, c, wf, nwf).output
           /\ hold_from = c
           /\ hold = 0

NextEngine == wsAudioLoop

SpecEngine == InitEngine /\ [][NextEngine]_vars

----------------------------------------------------------------------------
(* Properties *)

Dist(a, b) == IF a < b THEN b - a ELSE a - b

\* a step of the sample interrupt: phase_inc is never 0, so the master phase moves
Sampled == master_phase' # master_phase

\* the stages of the last invocation, recomputed from the phase and the control
\* parameters it saw; meaningful where loop() has not stored since (SpecEngine)
Seen == Engine(master_phase, slave_offset_current, wrap_factor, neg_wrap_factor)

\* C1, per invocation: slave_offset_current moves by exactly 1 toward
\* slave_offset_measured while they differ and by 0 once equal, never past it;
\* whatever the target, it changes by at most 1; loop() never changes it.
C1_Step ==
    IF Sampled
    THEN /\ Dist(slave_offset_current', slave_offset_measured)
               = Max(0, Dist(slave_offset_current, slave_offset_measured) - 1)
         /\ Dist(slave_offset_current', slave_offset_current)
               = (IF slave_offset_current = slave_offset_measured THEN 0 ELSE 1)
         /\ (slave_offset_current <= slave_offset_measured
               => slave_offset_current' <= slave_offset_measured)
         /\ (slave_offset_current >= slave_offset_measured
               => slave_offset_current' >= slave_offset_measured)
    ELSE slave_offset_current' = slave_offset_current

\* C1, over a stretch in which the target t is held: after n invocations the
\* distance to t is max(0, |c0 - t| - n), so it is 0 after exactly |c0 - t|
\* invocations, not before, and stays 0.
C1_Held ==
    /\ slave_offset_current \in 0..AnalogMax
    /\ slave_offset_measured \in 0..AnalogMax
    /\ hold < HoldCap
         => Dist(slave_offset_current, slave_offset_measured)
              = Max(0, Dist(hold_from, slave_offset_measured) - hold)
    /\ hold = HoldCap => slave_offset_current = slave_offset_measured

\* C1: the slew limiter converges to a held target in exactly |c0 - t|
\* invocations, one code per invocation, without overshoot, and never moves
\* by more than one code per invocation.
C1_SlewLimiter == [](C1_Held) /\ [][C1_Step]_vars

\* C1 witness: a target two or more codes away was reached after exactly that
\* many invocations
C1_Witness ==
    /\ Dist(hold_from, slave_offset_measured) >= 2
    /\ hold = Dist(hold_from, slave_offset_measured)
    /\ slave_offset_current = slave_offset_measured

\* C2 as stated: neg_wrap_factor <= wrap_factor in every state in which the
\* sample interrupt can run, between the two stores of loop() included.
C2_AlwaysOrdered == neg_wrap_factor <= wrap_factor

\* C2 amended: neg_wrap_factor <= wrap_factor in every state except those in
\* which loop() has stored wrap_factor and not yet neg_wrap_factor.
C2_OrderedOutsideWindow == pc # "neg" => neg_wrap_factor <= wrap_factor

\* C2 witness: loop() has completed with both factors off their defaults and
\* the engine has run
C2_Witness ==
    /\ pc = "pitch"
    /\ wrap_factor = 130
    /\ neg_wrap_factor = 65
    /\ pwm >= 0

\* C3: wrap_factor is in [64,511] and neg_wrap_factor in [64,255] in every
\* state; wrap_factor = min(64 + floor(knob/2), 511) for the reading loop()
\* took, and neg_wrap_factor = max(floor(wrap_factor/2), 64) once loop() has
\* stored it.
C3_FoldRanges ==
    /\ wrap_factor \in 64..511
    /\ neg_wrap_factor \in 64..255
    /\ wrap_factor = Min(64 + wrap_read \div 2, 511)
    /\ pc # "neg" => neg_wrap_factor = Max(wrap_factor \div 2, 64)

\* C3 witness: a completed loop() with the knob at its maximum, both clamps'
\* upper ends reached
C3_Witness ==
    /\ pc = "pitch"
    /\ wrap_read = AnalogMax
    /\ wrap_factor = 511
    /\ neg_wrap_factor = 255

\* C4 as stated: where the fold stage does not invert the polarity, an
\* output >= 128 was scaled by wrap_factor and an output <= 127 by
\* neg_wrap_factor.
C4_FactorByOutputHalf ==
    master_polarity = Seen.ring_polarity
      => /\ output >= 128 => Seen.scaled = Scale(Seen.ring, wrap_factor)
         /\ output <= 127 => Seen.scaled = Scale(Seen.ring, neg_wrap_factor)

\* C5 as stated: whenever floor(m * F / 64) has bit 8 set, the polarity is
\* inverted, the rescale having kept the bits above bit 7.
C5_FoldPastZero ==
    LET r == (Seen.ring * Seen.factor) \div 64
    IN  (r \div 256) % 2 = 1
          => /\ Seen.scaled = r
             /\ master_polarity = ~Seen.ring_polarity

\* C6, per step: an invocation writes the output of the previous invocation
\* (0 at first) to the PWM before it computes its own, which is the engine's
\* result for the phase and the parameters this invocation sees; nothing else
\* writes the PWM or the output.
C6_Step ==
    IF Sampled
    THEN /\ pwm' = output
         /\ pwm = -1 => pwm' = 0
         /\ output' = Engine(master_phase', slave_offset_current', wrap_factor,
                             neg_wrap_factor).output
    ELSE pwm' = pwm /\ output' = output

\* C6: one-sample output pipeline.
C6_Pipeline == [][C6_Step]_vars

\* C6 witness: a sample other than the default has been written and the next
\* one, not yet written, differs from it
C6_Witness == pwm > 0 /\ output # pwm

\* C7: slave_phase = (floor(master_phase * slave_offset_current / 256)
\* + master_phase) mod 65536 with the exact product, and it is 0 whenever
\* master_phase is 0.
C7_HardSync ==
    /\ slave_offset_current \in 0..AnalogMax
    /\ slave_phase = ((master_phase * slave_offset_current) \div 256
                        + master_phase) % 65536
    /\ accumulator = slave_phase
    /\ master_phase = 0 => slave_phase = 0

\* C7 witness: the product does not fit 16 bits and the sum wraps
C7_Witness ==
    /\ master_phase * slave_offset_current >= 65536
    /\ (master_phase * slave_offset_current) \div 256 + master_phase >= 65536
    /\ slave_phase = ((master_phase * slave_offset_current) \div 256
                        + master_phase) % 65536

\* C8: the reflect step leaves 0..127 unchanged and maps v in 128..255 to
\* 127 - (v mod 128); the folded magnitude is in [0,127]; the output is
\* 127 - magnitude in [0,127] with the polarity flag set and 128 + magnitude
\* in [128,255] otherwise.
C8_OutputStage ==
    /\ Seen.masked \in 0..255
    /\ master_value = (IF Seen.masked <= 127 THEN Seen.masked
                       ELSE 127 - (Seen.masked % 128))
    /\ master_value \in 0..127
    /\ master_polarity => output = 127 - master_value /\ output \in 0..127
    /\ ~master_polarity => output = 128 + master_value /\ output \in 128..255

\* C8 witness: a value above 127 was reflected and emitted below the midpoint
C8_Witness ==
    /\ Seen.masked > 127
    /\ master_polarity
    /\ output = 127 - master_value

\* C9 as stated: after an invocation, the slave phase before truncation is at
\* least P and at most 4 * P.
C9_AtMostFourTimes ==
    LET a == SlaveAccumulator(master_phase, slave_offset_current)
    IN  hold > 0
          => /\ slave_offset_current \in 0..AnalogMax
             /\ a >= master_phase
             /\ a <= 4 * master_phase

\* C9 amended: the slave phase before truncation is at least P and at most
\* 5 * P.
C9_AtMostFiveTimes ==
    LET a == SlaveAccumulator(master_phase, slave_offset_current)
    IN  /\ slave_offset_current \in 0..AnalogMax
        /\ slave_phase = a % 65536
        /\ a >= master_phase
        /\ a <= 5 * master_phase

\* C9 witness: the detune at its maximum, the slave phase beyond four times
\* the master's
C9_Witness ==
    /\ hold > 0
    /\ slave_offset_current = AnalogMax
    /\ master_phase > 0
    /\ SlaveAccumulator(master_phase, slave_offset_current) > 4 * master_phase
    /\ slave_phase = SlaveAccumulator(master_phase, slave_offset_current) % 65536

\* C10: no 16-bit multiplication of the engine wraps: with x = bits 14..7 of
\* the phase, x * (255 - x) * 4 < 65536 and the magnitude is its quotient by
\* 256, in [0,254]; the ring product is < 65536 and the halved magnitude in
\* [0,126]; the magnitude times any factor up to 511 is < 65536.
C10_NoWrap ==
    LET xm == (master_phase \div 128) % 256
        xs == (slave_phase \div 128) % 256
        mv == PseudoSine(master_phase)
    IN  /\ xm * (255 - xm) * 4 < 65536
        /\ xs * (255 - xs) * 4 < 65536
        /\ mv = (xm * (255 - xm) * 4) \div 256
        /\ slave_value = (xs * (255 - xs) * 4) \div 256
        /\ mv \in 0..254
        /\ slave_value \in 0..254
        /\ mv * slave_value < 65536
        /\ Seen.ring = ((mv * slave_value) \div 256) \div 2
        /\ Seen.ring \in 0..126
        /\ Seen.ring * 511 < 65536
        /\ Seen.factor \in 64..511
        /\ Mul16(Seen.ring, Seen.factor) = Seen.ring * Seen.factor

\* C10 witness: both sines at their peak, the largest magnitude times the
\* largest factor
C10_Witness ==
    /\ PseudoSine(master_phase) = 254
    /\ slave_value = 254
    /\ Seen.ring = 126
    /\ Seen.factor = 511

====
